---- MODULE Spec2Model ----
(***************************************************************************)
(* Model of the hyperswap-contracts deployment CLI (index.ts) driving the  *)
(* migration engine over a fixed list of deploy steps.                     *)
(*                                                                         *)
(* index.ts loads the migration state file, hands the loaded state and the *)
(* onStateChange callback to deploy(), pulls one result batch per step     *)
(* from the async generator, waits for the batch's transactions and        *)
(* finally prints the final state.  The generator (src/deploy, migrate)    *)
(* and createDeployContractStep are not part of the sources at hand; they  *)
(* are modelled from sections 4.1 and 4.2 of the specification.            *)
(***************************************************************************)
EXTENDS Integers, Sequences, FiniteSets, TLC

VARIABLES
    steps,           \* the fixed ordered list of step keys handed to the engine
    config,          \* the static configuration (weth9Address)
    file,            \* the migration state file (program.state)
    firstFile,       \* the file as it was when the first process started
    initialFile,     \* the file as it was when the current process started
    runs,            \* number of processes started so far
    submittedBefore, \* keys whose action an earlier process submitted successfully
    pc,              \* position of the current process
    state,           \* index.ts:96, the state loaded at start
    migrationState,  \* the engine's running MigrationState
    finalState,      \* index.ts:108
    index,           \* position of the engine in the step list
    step,            \* index.ts:115, the caller's step counter
    results,         \* index.ts:116, the batches the caller received
    batch,           \* the batch of the step in progress
    delta,           \* the state delta of the step in progress
    snapshots,       \* the snapshots onStateChange wrote in this process, in order
    subs,            \* the submissions of this process, in order
    visited,         \* the step keys the engine visited in this process
    failure,         \* why run() rejected, "none" while it has not
    reported,        \* what the then/catch handler printed as final state
    waits,           \* the entries of the batch whose waitForTransaction is pending
    confirmed        \* keys whose transactions were all seen confirmed by a process

vars == <<steps, config, firstFile, file, initialFile, runs, submittedBefore,
          pc, state, migrationState, finalState, index, step, results, batch,
          delta, snapshots, subs, visited, failure, reported, waits, confirmed>>

----------------------------------------------------------------------------
(* Bounds *)

\* number of processes (the first start plus the restarts) in one behaviour
MaxRuns == 2

----------------------------------------------------------------------------
(* Values *)

V3_CORE_FACTORY == "v3CoreFactoryAddress"
SWAP_ROUTER_02 == "swapRouter02"
MULTICALL2 == "multicall2Address"

\* every key a step of the model writes
Keys == {V3_CORE_FACTORY, SWAP_ROUTER_02, MULTICALL2}

\* the addresses a deployment may return and a state file may record
Addrs == {"0xA1", "0xA2"}

WETH9 == "0x4200000000000000000000000000000000000023"

\* the step lists the engine is run over: the two-step list [A, B] with B
\* reading A's output, the same followed by an independent step, and a list
\* in which no step produces the router's prerequisite
StepLists == { <<V3_CORE_FACTORY, SWAP_ROUTER_02>>,
               <<V3_CORE_FACTORY, SWAP_ROUTER_02, MULTICALL2>>,
               <<MULTICALL2, SWAP_ROUTER_02>> }

\* the empty MigrationState, {}
EmptyState == [k \in {} |-> "0xA1"]

\* every MigrationState over the model's keys
States == UNION { [D -> Addrs] : D \in SUBSET Keys }

Undefined == [defined |-> FALSE, value |-> EmptyState]
Defined(v) == [defined |-> TRUE, value |-> v]

NoFile == [exists |-> FALSE, text |-> {}]

\* JSON.stringify of a MigrationState: the text lists one "key": value member
\* per own key of the object
JSONstringify(s) == { <<k, s[k]>> : k \in DOMAIN s }

\* JSON.parse of such a text
JSONparse(text) ==
    [k \in { m[1] : m \in text } |-> (CHOOSE m \in text : m[1] = k)[2]]

\* the keys a state file records
FileKeys(f) == IF f.exists THEN { m[1] : m \in f.text } ELSE {}

\* the state a state file holds for a reader
Persisted(f) == IF f.exists THEN JSONparse(f.text) ELSE EmptyState

\* state[key] === undefined
IsUndefined(s, key) == key \notin DOMAIN s

\* { ...state, ...d }
Merge(s, d) == d @@ s

----------------------------------------------------------------------------
(* index.ts *)

\* a loader that takes the "no file" branch whatever the file holds
LoadState_ignoresFile(f) == EmptyState

\* index.ts:96-106
LoadState(f) ==
    IF f.exists THEN JSONparse(f.text) ELSE EmptyState

\* a callback that writes the state loaded at start instead of its argument
onStateChange_writesLoadedState(newState) ==
    /\ file' = [exists |-> TRUE, text |-> JSONstringify(state)]
    /\ finalState' = Defined(state)
    /\ snapshots' = Append(snapshots, state)

\* a callback that leaves the file alone when its argument equals finalState
onStateChange_onlyOnChange(newState) ==
    IF finalState = Defined(newState)
    THEN UNCHANGED <<file, finalState, snapshots>>
    ELSE /\ file' = [exists |-> TRUE, text |-> JSONstringify(newState)]
         /\ finalState' = Defined(newState)
         /\ snapshots' = Append(snapshots, newState)

\* a callback that writes the file and does not assign finalState
onStateChange_noFinalState(newState) ==
    /\ file' = [exists |-> TRUE, text |-> JSONstringify(newState)]
    /\ finalState' = finalState
    /\ snapshots' = Append(snapshots, newState)

\* index.ts:109-112
onStateChange(newState) ==
    /\ file' = [exists |-> TRUE, text |-> JSONstringify(newState)]
    /\ finalState' = Defined(newState)
    /\ snapshots' = Append(snapshots, newState)

----------------------------------------------------------------------------
(* steps *)

\* an argument computation without the prerequisite check
computeArguments_noCheck(s, cfg) ==
    [ok |-> TRUE, error |-> "",
     args |-> <<IF IsUndefined(s, V3_CORE_FACTORY) THEN "undefined"
                ELSE s[V3_CORE_FACTORY],
                cfg.weth9Address>>]

\* an argument computation that passes its two arguments in the wrong order
computeArguments_swapped(s, cfg) ==
    IF IsUndefined(s, V3_CORE_FACTORY)
    THEN [ok |-> FALSE, error |-> "Missing V3 Core Factory", args |-> <<>>]
    ELSE [ok |-> TRUE, error |-> "",
          args |-> <<cfg.weth9Address, s[V3_CORE_FACTORY]>>]

\* src/steps/deploy-v3-swap-router-02.ts:7-16
DEPLOY_V3_SWAP_ROUTER_02_computeArguments(s, cfg) ==
    IF IsUndefined(s, V3_CORE_FACTORY)
    THEN [ok |-> FALSE, error |-> "Missing V3 Core Factory", args |-> <<>>]
    ELSE [ok |-> TRUE, error |-> "",
          args |-> <<s[V3_CORE_FACTORY], cfg.weth9Address>>]

\* the argument computation of the step with the given key
computeArguments(key, s, cfg) ==
    IF key = SWAP_ROUTER_02
    THEN DEPLOY_V3_SWAP_ROUTER_02_computeArguments(s, cfg)
    ELSE [ok |-> TRUE, error |-> "", args |-> <<>>]

NoBatch == <<>>

\* the replayed result of a step that is already complete
SkippedResult(key, s) ==
    <<[key |-> key, address |-> s[key], hash |-> FALSE]>>

\* the number of transactions a step submits: one deployment, and for the
\* multicall step a second, related one (deploy-then-initialize)
TransactionsOf(key) == IF key = MULTICALL2 THEN 2 ELSE 1

\* the result of a step whose deployment was submitted: one record per
\* submitted transaction
DeployedResult(key, addr) ==
    [n \in 1..TransactionsOf(key) |->
        [key |-> key, address |-> addr, hash |-> TRUE]]

----------------------------------------------------------------------------
(* Initial state: a process has started and loaded the state file *)

Init ==
    /\ steps \in StepLists
    /\ config = [weth9Address |-> WETH9]
    /\ file \in {NoFile} \cup
                { [exists |-> TRUE, text |-> JSONstringify(s)] : s \in States }
    /\ firstFile = file
    /\ initialFile = file
    /\ runs = 1
    /\ submittedBefore = {}
    /\ pc = "step"
    /\ state = LoadState(file)
    /\ migrationState = state
    /\ finalState = Undefined
    /\ index = 1
    /\ step = 1
    /\ results = <<>>
    /\ batch = NoBatch
    /\ delta = EmptyState
    /\ snapshots = <<>>
    /\ subs = <<>>
    /\ visited = <<>>
    /\ failure = "none"
    /\ reported = Undefined
    /\ waits = {}
    /\ confirmed = {}

----------------------------------------------------------------------------
(* The step runner: skip check, argument computation, submission *)

\* a runner that computes the arguments before it looks for a recorded result
ArgumentsFail_beforeSkipCheck ==
    /\ pc = "step"
    /\ ~computeArguments(steps[index], migrationState, config).ok
    /\ visited' = Append(visited, steps[index])
    /\ failure' = "arguments"
    /\ pc' = "threw"
    /\ UNCHANGED <<steps, config, firstFile, file, initialFile, runs,
                   submittedBefore, state, migrationState, finalState, index,
                   step, results, batch, delta, snapshots, subs, reported,
                   waits, confirmed>>

\* the step is already complete: its recorded result is replayed
SkipStep ==
    /\ pc = "step"
    /\ ~IsUndefined(migrationState, steps[index])
    /\ visited' = Append(visited, steps[index])
    /\ batch' = SkippedResult(steps[index], migrationState)
    /\ delta' = EmptyState
    /\ pc' = "ran"
    /\ UNCHANGED <<steps, config, firstFile, file, initialFile, runs,
                   submittedBefore, state, migrationState, finalState, index,
                   step, results, snapshots, subs, failure, reported, waits,
                   confirmed>>

\* the argument computation throws: run() rejects
ArgumentsFail ==
    /\ pc = "step"
    /\ IsUndefined(migrationState, steps[index])
    /\ ~computeArguments(steps[index], migrationState, config).ok
    /\ visited' = Append(visited, steps[index])
    /\ failure' = "arguments"
    /\ pc' = "threw"
    /\ UNCHANGED <<steps, config, firstFile, file, initialFile, runs,
                   submittedBefore, state, migrationState, finalState, index,
                   step, results, batch, delta, snapshots, subs, reported,
                   waits, confirmed>>

\* the broadcaster rejects the action: run() rejects
SubmitFail ==
    /\ pc = "step"
    /\ IsUndefined(migrationState, steps[index])
    /\ computeArguments(steps[index], migrationState, config).ok
    /\ visited' = Append(visited, steps[index])
    /\ failure' = "submission"
    /\ pc' = "threw"
    /\ UNCHANGED <<steps, config, firstFile, file, initialFile, runs,
                   submittedBefore, state, migrationState, finalState, index,
                   step, results, batch, delta, snapshots, subs, reported,
                   waits, confirmed>>

\* the broadcaster acknowledges the deployment with the contract's address
SubmitStep ==
    /\ pc = "step"
    /\ IsUndefined(migrationState, steps[index])
    /\ computeArguments(steps[index], migrationState, config).ok
    /\ \E addr \in Addrs :
          /\ subs' = Append(subs,
                 [key |-> steps[index],
                  args |-> computeArguments(steps[index], migrationState, config).args])
          /\ batch' = DeployedResult(steps[index], addr)
          /\ delta' = (steps[index] :> addr)
    /\ visited' = Append(visited, steps[index])
    /\ pc' = "ran"
    /\ UNCHANGED <<steps, config, firstFile, file, initialFile, runs,
                   submittedBefore, state, migrationState, finalState, index,
                   step, results, snapshots, failure, reported, waits,
                   confirmed>>

----------------------------------------------------------------------------
(* The engine: merge the delta, persist, yield *)

MergeAndPersist ==
    /\ pc = "ran"
    /\ migrationState' = Merge(migrationState, delta)
    /\ onStateChange(Merge(migrationState, delta))
    /\ delta' = EmptyState
    /\ pc' = "persisted"
    /\ UNCHANGED <<steps, config, firstFile, initialFile, runs,
                   submittedBefore, state, index, step, results, batch, subs,
                   visited, failure, reported, waits, confirmed>>

\* index.ts:134-141, the entries of a batch that waitForTransaction is called on
HashEntries(b) == { n \in 1..Len(b) : b[n].hash }

\* some result of the batch carries a transaction hash
HasHash(b) == HashEntries(b) # {}

\* a loop body that keeps only the batches that carry a transaction
ReceiveBatch_dropsReplays ==
    /\ pc = "persisted"
    /\ step' = step + 1
    /\ results' = IF batch[1].hash THEN Append(results, batch) ELSE results
    /\ waits' = HashEntries(batch)
    /\ pc' = "waiting"
    /\ UNCHANGED <<steps, config, firstFile, file, initialFile, runs,
                   submittedBefore, state, migrationState, finalState, index,
                   batch, delta, snapshots, subs, visited, failure, reported,
                   confirmed>>

\* index.ts:128-142, the loop body receives the yielded batch and starts one
\* wait per entry that carries a hash, all of them before it awaits any
ReceiveBatch ==
    /\ pc = "persisted"
    /\ step' = step + 1
    /\ results' = Append(results, batch)
    /\ waits' = HashEntries(batch)
    /\ pc' = "waiting"
    /\ UNCHANGED <<steps, config, firstFile, file, initialFile, runs,
                   submittedBefore, state, migrationState, finalState, index,
                   batch, delta, snapshots, subs, visited, failure, reported,
                   confirmed>>

\* index.ts:137, one waitForTransaction of the batch resolves with a receipt
WaitResolved ==
    /\ pc = "waiting"
    /\ \E n \in waits :
          /\ waits' = waits \ {n}
          /\ confirmed' = IF waits = {n} THEN confirmed \cup {batch[n].key}
                          ELSE confirmed
    /\ UNCHANGED <<steps, config, firstFile, file, initialFile, runs,
                   submittedBefore, pc, state, migrationState, finalState,
                   index, step, results, batch, delta, snapshots, subs,
                   visited, failure, reported>>

\* the generator is resumed: the next step, or the end of the list
Resume ==
    /\ batch' = NoBatch
    /\ IF index < Len(steps)
       THEN index' = index + 1 /\ pc' = "step"
       ELSE index' = index /\ pc' = "returned"

\* a loop body that does not await the waits it started
WaitDone_noAwait ==
    /\ pc = "waiting"
    /\ Resume
    /\ UNCHANGED <<steps, config, firstFile, file, initialFile, runs,
                   submittedBefore, state, migrationState, finalState, step,
                   results, delta, snapshots, subs, visited, failure,
                   reported, waits, confirmed>>

\* index.ts:133-144, Promise.all resolved: every wait of the batch resolved
WaitDone ==
    /\ pc = "waiting"
    /\ waits = {}
    /\ Resume
    /\ UNCHANGED <<steps, config, firstFile, file, initialFile, runs,
                   submittedBefore, state, migrationState, finalState, step,
                   results, delta, snapshots, subs, visited, failure,
                   reported, waits, confirmed>>

\* index.ts:137, one waitForTransaction times out: Promise.all rejects at
\* once and run() rejects, the other waits of the batch are left pending
WaitTimeout ==
    /\ pc = "waiting"
    /\ \E n \in waits : waits' = waits \ {n}
    /\ failure' = "timeout"
    /\ pc' = "threw"
    /\ UNCHANGED <<steps, config, firstFile, file, initialFile, runs,
                   submittedBefore, state, migrationState, finalState, index,
                   step, results, batch, delta, snapshots, subs, visited,
                   reported, confirmed>>

----------------------------------------------------------------------------
(* index.ts:149-162 *)

\* a then handler without process.exit(0)
ThenHandler_noExit ==
    /\ pc = "returned"
    /\ reported' = finalState
    /\ pc' = "returned"
    /\ UNCHANGED <<steps, config, firstFile, file, initialFile, runs,
                   submittedBefore, state, migrationState, finalState, index,
                   step, results, batch, delta, snapshots, subs, visited,
                   failure, waits, confirmed>>

ThenHandler ==
    /\ pc = "returned"
    /\ reported' = finalState
    /\ pc' = "exit0"
    /\ UNCHANGED <<steps, config, firstFile, file, initialFile, runs,
                   submittedBefore, state, migrationState, finalState, index,
                   step, results, batch, delta, snapshots, subs, visited,
                   failure, waits, confirmed>>

CatchHandler ==
    /\ pc = "threw"
    /\ reported' = finalState
    /\ pc' = "exit1"
    /\ UNCHANGED <<steps, config, firstFile, file, initialFile, runs,
                   submittedBefore, state, migrationState, finalState, index,
                   step, results, batch, delta, snapshots, subs, visited,
                   failure, waits, confirmed>>

----------------------------------------------------------------------------
(* The process is killed, and a new one is started on the same state file *)

Running == pc \in {"step", "ran", "persisted", "waiting", "returned", "threw"}

Ended == pc \in {"killed", "exit0", "exit1"}

Kill ==
    /\ Running
    /\ pc' = "killed"
    /\ UNCHANGED <<steps, config, firstFile, file, initialFile, runs,
                   submittedBefore, state, migrationState, finalState, index,
                   step, results, batch, delta, snapshots, subs, visited,
                   failure, reported, waits, confirmed>>

Restart ==
    /\ Ended
    /\ runs < MaxRuns
    /\ runs' = runs + 1
    /\ submittedBefore' = submittedBefore \cup { subs[n].key : n \in 1..Len(subs) }
    /\ initialFile' = file
    /\ state' = LoadState(file)
    /\ migrationState' = LoadState(file)
    /\ finalState' = Undefined
    /\ index' = 1
    /\ step' = 1
    /\ results' = <<>>
    /\ batch' = NoBatch
    /\ delta' = EmptyState
    /\ snapshots' = <<>>
    /\ subs' = <<>>
    /\ visited' = <<>>
    /\ failure' = "none"
    /\ reported' = Undefined
    /\ waits' = {}
    /\ pc' = "step"
    /\ UNCHANGED <<steps, config, firstFile, file, confirmed>>

\* the steps of the program itself: the event loop runs whatever is ready
Program ==
    \/ SkipStep
    \/ ArgumentsFail
    \/ SubmitFail
    \/ SubmitStep
    \/ MergeAndPersist
    \/ ReceiveBatch
    \/ WaitResolved
    \/ WaitDone
    \/ WaitTimeout
    \/ ThenHandler
    \/ CatchHandler

Next ==
    \/ SkipStep
    \/ ArgumentsFail
    \/ SubmitFail
    \/ SubmitStep
    \/ MergeAndPersist
    \/ ReceiveBatch
    \/ WaitResolved
    \/ WaitDone
    \/ WaitTimeout
    \/ ThenHandler
    \/ CatchHandler
    \/ Kill
    \/ Restart

Spec == Init /\ [][Next]_vars

\* the address a deterministic broadcaster returns for a step's deployment
DeployAddress(key) == IF key = SWAP_ROUTER_02 THEN "0xA2" ELSE "0xA1"

\* the program with deterministic submissions: every submitted batch records
\* the address that is a function of the step
DetNext ==
    /\ Next
    /\ HasHash(batch') => batch'[1].address = DeployAddress(batch'[1].key)

DetSpec == Init /\ [][DetNext]_vars

\* the outcome of one uninterrupted run over the steps from the n-th on,
\* started on the state s, with deterministic submissions that all succeed
RECURSIVE FreshRun(_, _)
FreshRun(s, n) ==
    IF n > Len(steps) THEN [ok |-> TRUE, state |-> s]
    ELSE IF ~IsUndefined(s, steps[n]) THEN FreshRun(s, n + 1)
    ELSE IF ~computeArguments(steps[n], s, config).ok
         THEN [ok |-> FALSE, state |-> s]
    ELSE FreshRun(Merge(s, steps[n] :> DeployAddress(steps[n])), n + 1)

\* every call the program awaits returns and the event loop runs what is
\* ready, so the program takes a step whenever it has one; a kill and a
\* restart may or may not happen
FairSpec == Spec /\ WF_vars(Program)

----------------------------------------------------------------------------
(* Properties *)

\* the keys of the steps this process submitted
SubmittedKeys == { subs[n].key : n \in 1..Len(subs) }

\* the run ended normally / by a failure of a step
Completed == pc \in {"returned", "exit0"}
StepFailed == failure \in {"arguments", "submission"}

\* the first step of the list whose key the state file did not record when
\* the process started
FirstIncomplete ==
    CHOOSE n \in 1..Len(steps) :
        /\ steps[n] \notin FileKeys(initialFile)
        /\ \A m \in 1..(n - 1) : steps[m] \in FileKeys(initialFile)

\* C1 - Idempotent resume: a process started on a persisted state submits
\* nothing for a step the persisted state records, and its first submission
\* is for the first step of the list that the persisted state does not record.
C1_IdempotentResume ==
    /\ SubmittedKeys \cap FileKeys(initialFile) = {}
    /\ subs # <<>> => subs[1].key = steps[FirstIncomplete]

\* a restarted process, started on the state in which an earlier process
\* persisted the first step, has made its first submission at the second step
C1_Witness ==
    /\ runs = 2
    /\ steps[1] \in submittedBefore
    /\ steps[1] \in FileKeys(initialFile)
    /\ steps[2] \notin FileKeys(initialFile)
    /\ subs # <<>>
    /\ subs[1].key = steps[2]

\* C2 - Crash tolerance at any point: whatever the points at which the
\* processes were killed, no process submits a step whose action an earlier
\* process already submitted successfully.
C2_NoResubmission ==
    SubmittedKeys \cap submittedBefore = {}

\* C3 - Merge-before-yield: for every batch the caller has received, the
\* snapshot persisted for that step holds the step's key with the value the
\* batch records, and at the moment of the yield the state file holds it.
C3_MergeBeforeYield ==
    /\ \A n \in 1..Len(results) :
          /\ n <= Len(snapshots)
          /\ results[n][1].key \in DOMAIN snapshots[n]
          /\ snapshots[n][results[n][1].key] = results[n][1].address
    /\ pc = "waiting" =>
          /\ batch[1].key \in FileKeys(file)
          /\ Persisted(file)[batch[1].key] = batch[1].address

\* the batch of an executed second step has just been yielded
C3_Witness ==
    /\ pc = "waiting"
    /\ index = 2
    /\ batch[1].hash
    /\ Len(results) = 2

\* C4 - The callback fires exactly once per step: a completed run over K steps
\* has persisted K snapshots (skipped steps included), and a run in which
\* step N failed has persisted N-1.
C4_CallbackOncePerStep ==
    /\ Completed => Len(snapshots) = Len(steps)
    /\ StepFailed => Len(snapshots) = index - 1
    /\ Len(snapshots) \in {Len(visited) - 1, Len(visited)}

\* a run has failed at its third step after a skipped first step
C4_Witness ==
    /\ pc = "exit1"
    /\ StepFailed
    /\ index = 3
    /\ ~results[1][1].hash
    /\ Len(snapshots) = 2

\* C5 (as stated) - Strictly growing key coverage: the keys of each persisted
\* snapshot are a strict superset of the keys of the previous one.
C5_StrictlyGrowing ==
    \A n \in 2..Len(snapshots) :
        /\ DOMAIN snapshots[n - 1] \subseteq DOMAIN snapshots[n]
        /\ DOMAIN snapshots[n - 1] # DOMAIN snapshots[n]

\* C5 (amended) - Growing key coverage: the keys of each persisted snapshot
\* include the keys of the previous one (of the loaded state, for the first),
\* and they are strictly more exactly when the step was executed, not skipped.
C5_GrowingKeyCoverage ==
    /\ snapshots # <<>> => DOMAIN state \subseteq DOMAIN snapshots[1]
    /\ \A n \in 2..Len(snapshots) :
          /\ DOMAIN snapshots[n - 1] \subseteq DOMAIN snapshots[n]
          /\ (DOMAIN snapshots[n - 1] # DOMAIN snapshots[n])
                <=> (steps[n] \in SubmittedKeys)

\* two snapshots of one run with the same keys: the second step was skipped
C5_Witness ==
    /\ Len(snapshots) >= 2
    /\ DOMAIN snapshots[1] = DOMAIN snapshots[2]
    /\ steps[2] \notin SubmittedKeys

\* C6 - Order invariance under restart: in every process the keys visited are
\* a prefix of the declared order, the caller has received one batch per
\* step in that order, and a completed run has visited every step.
C6_OrderInvariance ==
    /\ Len(visited) <= Len(steps)
    /\ visited = SubSeq(steps, 1, Len(visited))
    /\ Len(results) \in {Len(visited) - 1, Len(visited)}
    /\ \A n \in 1..Len(results) :
          /\ Len(results[n]) >= 1
          /\ \A m \in 1..Len(results[n]) : results[n][m].key = steps[n]
    /\ step = Len(results) + 1
    /\ Completed => visited = steps /\ Len(results) = Len(steps)

\* a restarted process has completed over the three-step list, with a step
\* skipped and a step executed
C6_Witness ==
    /\ runs = 2
    /\ pc = "exit0"
    /\ Len(steps) = 3
    /\ ~results[1][1].hash
    /\ results[3][1].hash

\* the resumed-deploy scenario: the list [A, B], started on a state that
\* records A and nothing else
ResumedDeployScenario ==
    /\ steps = <<V3_CORE_FACTORY, SWAP_ROUTER_02>>
    /\ FileKeys(initialFile) = {V3_CORE_FACTORY}
    /\ Completed

\* C7 (as stated) - Resumed deploy: the run submits only B, with A's recorded
\* value as its input, and yields exactly one batch.
C7_ResumedDeployOneBatch ==
    ResumedDeployScenario =>
        /\ subs = <<[key |-> SWAP_ROUTER_02,
                     args |-> <<Persisted(initialFile)[V3_CORE_FACTORY],
                                config.weth9Address>>]>>
        /\ Len(results) = 1

\* C7 (amended) - Resumed deploy: the run submits only B, with A's recorded
\* value as its input, and yields two batches: A's replayed result, which
\* carries no transaction, and then B's.
C7_ResumedDeploy ==
    ResumedDeployScenario =>
        /\ subs = <<[key |-> SWAP_ROUTER_02,
                     args |-> <<Persisted(initialFile)[V3_CORE_FACTORY],
                                config.weth9Address>>]>>
        /\ Len(results) = 2
        /\ results[1] = SkippedResult(V3_CORE_FACTORY, Persisted(initialFile))
        /\ results[2][1].key = SWAP_ROUTER_02
        /\ results[2][1].hash

\* the scenario has run to its end
C7_Witness ==
    /\ ResumedDeployScenario
    /\ pc = "exit0"

\* the engine has visited the router step on a state that holds neither the
\* router's prerequisite nor the router's own result
MissingPrerequisite ==
    /\ Len(visited) = index
    /\ steps[index] = SWAP_ROUTER_02
    /\ IsUndefined(migrationState, V3_CORE_FACTORY)
    /\ IsUndefined(migrationState, SWAP_ROUTER_02)

\* C8 - Missing-prerequisite failure: when the state lacks the key the step's
\* argument computation needs and the step is not complete, the run fails at
\* that step with nothing submitted for it and nothing persisted for it.
C8_MissingPrerequisiteFails ==
    MissingPrerequisite =>
        /\ failure = "arguments"
        /\ steps[index] \notin SubmittedKeys
        /\ Len(snapshots) = index - 1
        /\ Len(results) = index - 1

\* the run has failed at the second step for its missing prerequisite
C8_Witness ==
    /\ MissingPrerequisite
    /\ index = 2
    /\ pc = "exit1"

\* the addresses the batches received so far record, by step key
RecordedDeltas ==
    [k \in { results[n][1].key : n \in 1..Len(results) } |->
        (CHOOSE r \in { results[n][1] : n \in 1..Len(results) } : r.key = k).address]

\* C9 - Abort leaves a valid prefix: when a step fails, no later step is
\* visited, no batch is yielded for it, and the in-memory state and the
\* persisted state are both the initial state plus the deltas of the steps
\* before it, without the failing step's key.
C9_AbortLeavesValidPrefix ==
    StepFailed =>
        /\ Len(visited) = index
        /\ Len(results) = index - 1
        /\ migrationState = Merge(Persisted(initialFile), RecordedDeltas)
        /\ Persisted(file) = migrationState
        /\ steps[index] \notin DOMAIN migrationState

\* a run has failed at its second step after executing the first
C9_Witness ==
    /\ StepFailed
    /\ index = 2
    /\ results[1][1].hash
    /\ pc = "exit1"

\* C10 - A failed run makes the latest state observable: the final state the
\* catch handler prints is the latest migration state, at whichever step the
\* run failed.
C10_FailedRunReportsLatestState ==
    pc = "exit1" => reported = Defined(migrationState)

\* C11 - Recorded results are never overwritten: every key of the state a
\* process loaded keeps its loaded value in the engine's state, in every
\* snapshot persisted and in the state file, and every key of the state file
\* the first process started on still has that value in the file, in this
\* process and in every later one.
C11_RecordedResultsKept ==
    /\ \A k \in DOMAIN state :
          /\ k \in DOMAIN migrationState /\ migrationState[k] = state[k]
          /\ \A n \in 1..Len(snapshots) :
                k \in DOMAIN snapshots[n] /\ snapshots[n][k] = state[k]
    /\ \A k \in FileKeys(initialFile) :
          /\ k \in FileKeys(file)
          /\ Persisted(file)[k] = Persisted(initialFile)[k]
    /\ \A k \in FileKeys(firstFile) :
          /\ k \in FileKeys(file)
          /\ Persisted(file)[k] = Persisted(firstFile)[k]

\* a restarted process has rewritten the file after executing a step, on a
\* first file that recorded a key and with a key the earlier process added
C11_Witness ==
    /\ runs = 2
    /\ FileKeys(firstFile) # {}
    /\ FileKeys(initialFile) # FileKeys(firstFile)
    /\ subs # <<>>
    /\ Len(snapshots) >= 2

\* C12 - Termination: when every call the program awaits returns, every
\* process eventually ends (it exits, or it is killed); it returns normally
\* only after the last step's batch was yielded and its waits were over, it
\* exits with 1 only after a failure, and the caller never holds more
\* batches than there are steps.
C12_Termination ==
    /\ [](Len(results) <= Len(steps))
    /\ [](Completed => /\ index = Len(steps)
                       /\ Len(results) = Len(steps)
                       /\ waits = {}
                       /\ failure = "none")
    /\ [](pc = "exit1" => failure # "none")
    /\ \A r \in 1..MaxRuns : (runs = r) ~> (runs = r /\ Ended)

\* a process has exited normally after the last of three steps, the last
\* one executed
C12_Witness ==
    /\ pc = "exit0"
    /\ Len(steps) = 3
    /\ Len(results) = 3
    /\ results[3][1].hash
    /\ runs = 1

\* C13 - Confirmation waiting is between steps: no wait is pending while a
\* step is computed, submitted, merged or persisted; when the engine has
\* visited step N+1 the caller holds step N's batch; the waits of a batch
\* are started together, one per entry with a hash; and after a timeout no
\* later step has been visited.
C13_WaitsBetweenSteps ==
    /\ pc \in {"step", "ran", "persisted", "returned"} => waits = {}
    /\ Len(visited) >= 1 => Len(results) >= Len(visited) - 1
    /\ pc = "waiting" => waits \subseteq HashEntries(results[Len(results)])
    /\ failure = "timeout" =>
          /\ Len(visited) = index
          /\ Len(results) = index
          /\ HasHash(results[index])
          /\ pc \in {"threw", "exit1", "killed"}

\* two waits of one batch are pending at once, before a later step
C13_Witness ==
    /\ pc = "waiting"
    /\ Cardinality(waits) = 2
    /\ index < Len(steps)

\* the keys of the steps the engine has merged in this process
MergedKeys == { steps[n] : n \in 1..Len(snapshots) }

\* C14 - Whole-state persistence: every snapshot written holds all keys of
\* the loaded state and of every step merged so far, and at every yield
\* point the state file, the caller's finalState and the engine's state are
\* equal.
C14_WholeStatePersisted ==
    /\ \A n \in 1..Len(snapshots) :
          DOMAIN snapshots[n] = DOMAIN state \cup { steps[m] : m \in 1..n }
    /\ pc \in {"persisted", "waiting"} =>
          /\ snapshots[Len(snapshots)] = migrationState
          /\ DOMAIN migrationState = DOMAIN state \cup MergedKeys
          /\ file.exists
          /\ JSONparse(file.text) = migrationState
          /\ finalState = Defined(migrationState)

\* the second executed step of a process started on a non-empty state has
\* been persisted and is about to be yielded
C14_Witness ==
    /\ pc = "persisted"
    /\ index = 2
    /\ Len(subs) = 2
    /\ DOMAIN state # {}
    /\ Cardinality(DOMAIN migrationState) = 3

\* the states s and t agree on the key k
SameAt(s, t, k) ==
    /\ k \in DOMAIN s <=> k \in DOMAIN t
    /\ k \in DOMAIN s => s[k] = t[k]

\* C15 - A step writes only its own key: no step of a process changes the
\* value of a key other than the current step's key, in the engine's state
\* or in the state file; merging and persisting a skipped step changes
\* neither; and no step changes the configuration.
C15_StepWritesOwnKey ==
    [][ runs' = runs =>
          /\ config' = config
          /\ \A k \in Keys \ {steps[index]} :
                /\ SameAt(migrationState, migrationState', k)
                /\ SameAt(Persisted(file), Persisted(file'), k)
          /\ (pc = "ran" /\ ~batch[1].hash) =>
                /\ migrationState' = migrationState
                /\ Persisted(file') = Persisted(file)
      ]_vars

\* an executed first step has been merged into a state that held other keys
C15_Witness ==
    /\ pc = "persisted"
    /\ index = 1
    /\ batch[1].hash
    /\ Cardinality(DOMAIN migrationState) = 3
    /\ runs = 1

\* C16 - The skip check precedes the argument computation: when the loaded
\* state records a result under swapRouter02, the router step is skipped,
\* its recorded result is replayed, nothing is submitted for it and the run
\* does not fail with 'Missing V3 Core Factory', whether or not
\* v3CoreFactoryAddress is in the state.
C16_SkipBeforeArguments ==
    \A n \in 1..Len(visited) :
        (visited[n] = SWAP_ROUTER_02 /\ ~IsUndefined(state, SWAP_ROUTER_02)) =>
            /\ ~(failure = "arguments" /\ index = n)
            /\ SWAP_ROUTER_02 \notin SubmittedKeys
            /\ Len(results) >= n =>
                  results[n] = SkippedResult(SWAP_ROUTER_02, state)
            /\ (pc = "ran" /\ index = n) =>
                  batch = SkippedResult(SWAP_ROUTER_02, state)

\* a run whose state records the router and not the factory has skipped the
\* router step and completed
C16_Witness ==
    /\ ~IsUndefined(state, SWAP_ROUTER_02)
    /\ IsUndefined(migrationState, V3_CORE_FACTORY)
    /\ visited = <<MULTICALL2, SWAP_ROUTER_02>>
    /\ pc = "exit0"

\* the factory address on record when the router step runs: the loaded
\* state's, or else the one the factory step of this process recorded
RecordedFactory ==
    IF ~IsUndefined(state, V3_CORE_FACTORY) THEN state[V3_CORE_FACTORY]
    ELSE RecordedDeltas[V3_CORE_FACTORY]

\* C17 - The router's argument computation fails with 'Missing V3 Core
\* Factory' exactly when v3CoreFactoryAddress is undefined in the state and
\* otherwise returns (state.v3CoreFactoryAddress, config.weth9Address); a
\* run fails in argument computation only at the router step with the
\* factory missing, and every router submission carries the factory address
\* on record and the configured WETH9 address.
C17_RouterArguments ==
    /\ \A s \in States :
          LET r == computeArguments(SWAP_ROUTER_02, s, config) IN
          /\ r.ok <=> ~IsUndefined(s, V3_CORE_FACTORY)
          /\ ~r.ok => r.error = "Missing V3 Core Factory"
          /\ r.ok => r.args = <<s[V3_CORE_FACTORY], WETH9>>
    /\ failure = "arguments" =>
          /\ steps[index] = SWAP_ROUTER_02
          /\ IsUndefined(migrationState, V3_CORE_FACTORY)
    /\ \A n \in 1..Len(subs) :
          subs[n].key = SWAP_ROUTER_02 =>
             /\ ~IsUndefined(migrationState, V3_CORE_FACTORY)
             /\ subs[n].args = <<RecordedFactory, WETH9>>
             /\ subs[n].args[1] = migrationState[V3_CORE_FACTORY]

\* the router was submitted with the address the factory step of the same
\* process had just recorded, on a file that did not record the factory
C17_Witness ==
    /\ IsUndefined(state, V3_CORE_FACTORY)
    /\ Len(subs) = 2
    /\ subs[2].key = SWAP_ROUTER_02
    /\ subs[2].args[1] = "0xA2"
    /\ results[1][1].address = "0xA2"

\* the state file a process started on records the key as complete although
\* an earlier process submitted its transaction and no process ever saw it
\* confirmed
Hazard(k) ==
    /\ k \in submittedBefore
    /\ k \notin confirmed
    /\ k \in FileKeys(initialFile)

\* C18 - The resumption hazard: a process started on a state file that
\* records a step whose transaction was submitted by an earlier process and
\* never seen confirmed skips that step: it submits nothing for it and
\* replays the recorded result, which carries no transaction to wait for.
C18_HazardStepSkipped ==
    \A k \in Keys :
        Hazard(k) =>
            /\ k \notin SubmittedKeys
            /\ \A n \in 1..Len(results) :
                  results[n][1].key = k => results[n] = SkippedResult(k, state)

\* the hazard is reached: the second process completed after skipping a
\* first step that the first process persisted and never saw confirmed
C18_Witness ==
    /\ runs = 2
    /\ Hazard(steps[1])
    /\ pc = "exit0"
    /\ results[1] = SkippedResult(steps[1], state)

\* C19 - Resume equivalence: with deterministic submissions, whenever a
\* process completes, however many earlier processes were interrupted and
\* wherever, its final state (in memory, in the file and in finalState) is
\* the final state of one uninterrupted run from the state file the first
\* process started on.
C19_ResumeEquivalence ==
    Completed =>
        LET fresh == FreshRun(Persisted(firstFile), 1) IN
        /\ fresh.ok
        /\ migrationState = fresh.state
        /\ Persisted(file) = fresh.state
        /\ finalState = Defined(fresh.state)
        /\ pc = "exit0" => reported = Defined(fresh.state)

\* a second process has completed after executing a step, resumed from the
\* state in which the first, interrupted process had persisted a step
C19_Witness ==
    /\ runs = 2
    /\ pc = "exit0"
    /\ submittedBefore \cap FileKeys(initialFile) # {}
    /\ FileKeys(firstFile) # FileKeys(initialFile)
    /\ subs # <<>>

====
